---- MODULE Spec2Model ----
(***************************************************************************)
(* A model of the painting canvas' history engine (UndoTracker,            *)
(* ReplayTracker), of the Grid and of the three LayerStore variants.       *)
(*                                                                         *)
(* Python values are encoded so that every variable keeps one type:        *)
(*   - a Layer is its position in the registry (0 .. NumLayers-1) and      *)
(*     NoLayer (-1) stands for None;                                       *)
(*   - a PaintAction is its identity (1 .. NumActions) and 0 stands for    *)
(*     "no action";                                                        *)
(*   - a return value is a record [tag, act]: tag is "True", "False",      *)
(*     "None", "action" (act is the returned PaintAction) or "raised"      *)
(*     (the call ended in a Python exception).                             *)
(***************************************************************************)
EXTENDS Integers, Sequences, FiniteSets, TLC

(***************************************************************************)
(* Bounds of the model.  The program's capacities (10000 history entries,  *)
(* 100 queue slots per registered layer, 9 registered layers) are scaled   *)
(* down; the relations between them are kept.                              *)
(***************************************************************************)
NumLayers == 4

CapPerLayer == 1

StackCap == 2

QueueCap == 2

NumActions == 3

\* the longest recording session explored: add_action calls that append
MaxRecords == 3

GridX == 2

GridY == 1

\* the longest run of special() calls on one store without an add or erase
MaxSpecials == 3

(***************************************************************************)
(* Layer registry (layers.py / layer_util.py): index, name, bg.            *)
(***************************************************************************)
NoLayer == 0 - 1

Layers == 0 .. (NumLayers - 1)

\* Layer objects: the registered layers and one more instance, NumLayers,
\* that carries the index, name and bg of layer 0
LayerInstances == 0 .. NumLayers

\* the registry, as the sequence of registered layers
get_layers == [i \in 1 .. NumLayers |-> i - 1]

layer_index(l) == l % NumLayers

\* names are compared lexicographically; the model keeps their rank only
layer_name(l) == (layer_index(l) + 1) % NumLayers

\* the layers of even index share one background colour, those of odd index
\* another one
layer_bg(l) == layer_index(l) % 2

\* layers.invert, the layer SetLayerStore.get_color applies in special mode
invert == NumLayers - 1

(***************************************************************************)
(* Colours.  Layer.apply is an opaque pure function of a colour, a         *)
(* timestamp and a position: a colour is kept as the start colour and the  *)
(* applications made to it, in order.  The one law kept is that invert is  *)
(* its own inverse (255 - (255 - v) = v on every channel).                 *)
(***************************************************************************)
Colour(start) == [start |-> start, applied |-> <<>>]

NoColour == [start |-> 0 - 1, applied |-> <<>>]

Application(layer, timestamp, x, y) ==
    [layer |-> layer_index(layer), timestamp |-> timestamp, x |-> x, y |-> y]

Layer_apply(layer, colour, timestamp, x, y) ==
    LET this == Application(layer, timestamp, x, y)
        n == Len(colour.applied)
    IN IF layer_index(layer) = invert /\ n > 0 /\ colour.applied[n] = this
          THEN [colour EXCEPT !.applied = SubSeq(@, 1, n - 1)]
          ELSE [colour EXCEPT !.applied = Append(@, this)]

\* what get_color gives back: a colour, or the exception it ended in
Returned(colour) == [tag |-> "colour", colour |-> colour]

Raised == [tag |-> "raised", colour |-> NoColour]

\* the last call was not a get_color
NoReturn == [tag |-> "none", colour |-> NoColour]

(***************************************************************************)
(* Return values.                                                          *)
(***************************************************************************)
RetNone == [tag |-> "None", act |-> 0]

RetRaised == [tag |-> "raised", act |-> 0]

RetBool(b) == [tag |-> IF b THEN "True" ELSE "False", act |-> 0]

RetAction(a) == [tag |-> "action", act |-> a]

(***************************************************************************)
(* data_structures.stack_adt.ArrayStack: a bounded LIFO.  The model keeps  *)
(* the live elements, bottom first, and the capacity.                      *)
(***************************************************************************)
ArrayStack(max_capacity) == [items |-> <<>>, cap |-> max_capacity]

ArrayStack_is_empty(s) == Len(s.items) = 0

ArrayStack_is_full(s) == Len(s.items) = s.cap

ArrayStack_push(s, item) == [s EXCEPT !.items = Append(@, item)]

ArrayStack_peek(s) == s.items[Len(s.items)]

ArrayStack_pop(s) == [s EXCEPT !.items = SubSeq(@, 1, Len(@) - 1)]

(***************************************************************************)
(* data_structures.queue_adt.CircularQueue: array, front, rear, length.    *)
(* serve() leaves the served reference in its slot; no code of the program *)
(* reads a slot outside the live range, and the model stores `empty` there.*)
(***************************************************************************)
CircularQueue(max_capacity, empty) ==
    [array |-> [i \in 0 .. (max_capacity - 1) |-> empty],
     front |-> 0, rear |-> 0, length |-> 0, empty |-> empty]

CircularQueue_capacity(q) == Cardinality(DOMAIN q.array)

CircularQueue_is_empty(q) == q.length = 0

CircularQueue_is_full(q) == q.length = CircularQueue_capacity(q)

CircularQueue_append(q, item) ==
    [q EXCEPT !.array[q.rear] = item,
              !.length = @ + 1,
              !.rear = (@ + 1) % CircularQueue_capacity(q)]

CircularQueue_front_item(q) == q.array[q.front]

CircularQueue_serve(q) ==
    [q EXCEPT !.array[q.front] = q.empty,
              !.length = @ - 1,
              !.front = (@ + 1) % CircularQueue_capacity(q)]

\* the live entries, oldest first
CircularQueue_items(q) ==
    [i \in 1 .. q.length |-> q.array[(q.front + i - 1) % CircularQueue_capacity(q)]]

(***************************************************************************)
(* data_structures.array_sorted_list.ArraySortedList of ListItem(value,    *)
(* key): the items in ascending key order.  Position i of the Python list  *)
(* is position i+1 of the sequence.                                        *)
(***************************************************************************)
ListItem(value, key) == [value |-> value, key |-> key]

ArraySortedList(max_capacity) == <<>>

RECURSIVE ArraySortedList_index_to_add(_, _, _, _)
\* binary search between the Python positions low and high
ArraySortedList_index_to_add(list, item, low, high) ==
    IF low > high THEN low
    ELSE LET mid == (low + high) \div 2 IN
         IF list[mid + 1].key < item.key
             THEN ArraySortedList_index_to_add(list, item, mid + 1, high)
         ELSE IF list[mid + 1].key > item.key
             THEN ArraySortedList_index_to_add(list, item, low, mid - 1)
         ELSE mid

ArraySortedList_add(list, item) ==
    LET index == ArraySortedList_index_to_add(list, item, 0, Len(list) - 1) IN
    SubSeq(list, 1, index) \o <<item>> \o SubSeq(list, index + 1, Len(list))

ArraySortedList_delete_at_index(list, index) ==
    SubSeq(list, 1, index) \o SubSeq(list, index + 2, Len(list))

(***************************************************************************)
(* LayerStore operations return [store, changed]: the store afterwards and *)
(* the boolean the Python method returns.                                  *)
(***************************************************************************)
Outcome(store, changed) == [store |-> store, changed |-> changed]

(***************************************************************************)
(* SetLayerStore                                                           *)
(***************************************************************************)
SetLayerStore == [kind |-> "SET", layer |-> NoLayer, special_switch |-> FALSE]

\* add that compares the layers themselves, not their backgrounds
SetLayerStore_add_compares_layer(self, layer) ==
    IF self.layer = NoLayer \/ self.layer # layer
       THEN Outcome([self EXCEPT !.layer = layer], TRUE)
       ELSE Outcome(self, FALSE)

SetLayerStore_add(self, layer) ==
    IF self.layer = NoLayer \/ layer_bg(self.layer) # layer_bg(layer)
        THEN Outcome([self EXCEPT !.layer = layer], TRUE)
        ELSE Outcome(self, FALSE)

\* erase that puts the whole store back as __init__ made it
SetLayerStore_erase_resets(self, layer) ==
    IF self.layer = NoLayer
        THEN Outcome(self, FALSE)
        ELSE Outcome([self EXCEPT !.layer = NoLayer, !.special_switch = FALSE], TRUE)

SetLayerStore_erase(self, layer) ==
    IF self.layer = NoLayer
        THEN Outcome(self, FALSE)
        ELSE Outcome([self EXCEPT !.layer = NoLayer], TRUE)

\* special that sets the flag and never clears it
SetLayerStore_special_sets(self) ==
    [self EXCEPT !.special_switch = TRUE]

SetLayerStore_special(self) ==
    IF self.special_switch = TRUE
        THEN [self EXCEPT !.special_switch = FALSE]
        ELSE [self EXCEPT !.special_switch = TRUE]

\* get_color that inverts only what a stored layer produced
SetLayerStore_get_color_inverts_layer_only(self, start, timestamp, x, y) ==
    IF self.layer = NoLayer THEN Returned(start)
    ELSE LET start1 == Layer_apply(self.layer, start, timestamp, x, y)
         IN Returned(IF self.special_switch
                        THEN Layer_apply(invert, start1, timestamp, x, y)
                        ELSE start1)

SetLayerStore_get_color(self, start, timestamp, x, y) ==
    LET start1 == IF self.layer # NoLayer
                     THEN Layer_apply(self.layer, start, timestamp, x, y)
                     ELSE start
        start2 == IF self.special_switch
                     THEN Layer_apply(invert, start1, timestamp, x, y)
                     ELSE start1
    IN Returned(start2)

(***************************************************************************)
(* AdditiveLayerStore                                                      *)
(***************************************************************************)
AdditiveCapacity == CapPerLayer * Len(get_layers)

AdditiveLayerStore == [kind |-> "ADD", queue |-> CircularQueue(AdditiveCapacity, NoLayer)]

\* add that appends without asking is_full
AdditiveLayerStore_add_unguarded(self, layer) ==
    Outcome([self EXCEPT !.queue = CircularQueue_append(@, layer)], TRUE)

AdditiveLayerStore_add(self, layer) ==
    IF CircularQueue_is_full(self.queue)
        THEN Outcome(self, FALSE)
        ELSE Outcome([self EXCEPT !.queue = CircularQueue_append(@, layer)], TRUE)

\* erase that takes the newest entry, at the rear
AdditiveLayerStore_erase_newest(self, layer) ==
    IF CircularQueue_is_empty(self.queue)
        THEN Outcome(self, FALSE)
        ELSE LET last == (self.queue.rear - 1) % CircularQueue_capacity(self.queue)
             IN Outcome([self EXCEPT !.queue.array[last] = self.queue.empty,
                                     !.queue.length = @ - 1,
                                     !.queue.rear = last], TRUE)

AdditiveLayerStore_erase(self, layer) ==
    IF CircularQueue_is_empty(self.queue)
        THEN Outcome(self, FALSE)
        ELSE Outcome([self EXCEPT !.queue = CircularQueue_serve(@)], TRUE)

RECURSIVE AdditiveLayerStore_get_color_loop(_, _, _, _, _, _)
\* for i in range(front, length + front), from i on: self.queue.array[i]
\* raises IndexError past the end of the array, and None has no apply
AdditiveLayerStore_get_color_loop(queue, i, color, timestamp, x, y) ==
    IF i >= queue.length + queue.front THEN Returned(color)
    ELSE IF i \notin DOMAIN queue.array THEN Raised
    ELSE IF queue.array[i] = NoLayer THEN Raised
    ELSE AdditiveLayerStore_get_color_loop(
             queue, i + 1, Layer_apply(queue.array[i], color, timestamp, x, y),
             timestamp, x, y)

AdditiveLayerStore_get_color(self, start, timestamp, x, y) ==
    IF CircularQueue_is_empty(self.queue) THEN Returned(start)
    ELSE AdditiveLayerStore_get_color_loop(
             self.queue, self.queue.front, start, timestamp, x, y)

RECURSIVE AdditiveLayerStore_special_drain(_, _, _)
\* first loop of special(): n times, push what the queue serves
AdditiveLayerStore_special_drain(queue, special_stack, n) ==
    IF n = 0 THEN [queue |-> queue, special_stack |-> special_stack]
    ELSE AdditiveLayerStore_special_drain(
             CircularQueue_serve(queue),
             ArrayStack_push(special_stack, CircularQueue_front_item(queue)),
             n - 1)

RECURSIVE AdditiveLayerStore_special_refill(_, _, _)
\* second loop of special(): n times, append what the stack pops
AdditiveLayerStore_special_refill(queue, special_stack, n) ==
    IF n = 0 THEN queue
    ELSE AdditiveLayerStore_special_refill(
             CircularQueue_append(queue, ArrayStack_peek(special_stack)),
             ArrayStack_pop(special_stack),
             n - 1)

AdditiveLayerStore_special(self) ==
    LET drained == AdditiveLayerStore_special_drain(
                       self.queue, ArrayStack(self.queue.length), self.queue.length)
    IN [self EXCEPT !.queue = AdditiveLayerStore_special_refill(
                                  drained.queue, drained.special_stack,
                                  Len(drained.special_stack.items))]

(***************************************************************************)
(* SequenceLayerStore                                                      *)
(***************************************************************************)
SequenceLayerStore == [kind |-> "SEQUENCE", list |-> ArraySortedList(Len(get_layers))]

\* add that looks for the Layer object itself, not for its index
SequenceLayerStore_add_compares_layer(self, layer) ==
    IF \E i \in 1 .. Len(self.list) : layer = self.list[i].value
        THEN Outcome(self, FALSE)
        ELSE Outcome([self EXCEPT !.list =
                         ArraySortedList_add(@, ListItem(layer, layer_index(layer)))],
                     TRUE)

SequenceLayerStore_add(self, layer) ==
    IF \E i \in 1 .. Len(self.list) : layer_index(layer) = self.list[i].key
        THEN Outcome(self, FALSE)
        ELSE Outcome([self EXCEPT !.list =
                         ArraySortedList_add(@, ListItem(layer, layer_index(layer)))],
                     TRUE)

\* erase that compares the position i, not the key at i, with layer.index
SequenceLayerStore_erase_by_position(self, layer) ==
    IF layer_index(layer) < Len(self.list)
        THEN Outcome([self EXCEPT !.list =
                         ArraySortedList_delete_at_index(@, layer_index(layer))], TRUE)
        ELSE Outcome(self, FALSE)

\* a variant that deletes position 0 once the index is found somewhere
SequenceLayerStore_erase_deletes_first(self, layer) ==
    IF \E i \in 1 .. Len(self.list) : self.list[i].key = layer_index(layer)
        THEN Outcome([self EXCEPT !.list = ArraySortedList_delete_at_index(@, 0)], TRUE)
        ELSE Outcome(self, FALSE)

SequenceLayerStore_erase(self, layer) ==
    LET found == {i \in 1 .. Len(self.list) : self.list[i].key = layer_index(layer)} IN
    IF found = {}
        THEN Outcome(self, FALSE)
        ELSE LET i == CHOOSE j \in found : \A k \in found : j <= k IN
             Outcome([self EXCEPT !.list = ArraySortedList_delete_at_index(@, i - 1)],
                     TRUE)

RECURSIVE SequenceLayerStore_alpha_sort(_, _)
\* the loop of special(): the first n stored layers added to a list keyed by name
SequenceLayerStore_alpha_sort(list, n) ==
    IF n = 0 THEN ArraySortedList(Len(list))
    ELSE ArraySortedList_add(SequenceLayerStore_alpha_sort(list, n - 1),
                             ListItem(list[n].value, layer_name(list[n].value)))

\* special that takes position len // 2 for every length
SequenceLayerStore_special_upper_median(self) ==
    IF Len(self.list) > 0
        THEN LET alpha_sort == SequenceLayerStore_alpha_sort(self.list, Len(self.list))
                 layer == alpha_sort[(Len(alpha_sort) \div 2) + 1].value
             IN SequenceLayerStore_erase(self, layer).store
        ELSE self

SequenceLayerStore_special(self) ==
    IF Len(self.list) > 0
        THEN LET alpha_sort == SequenceLayerStore_alpha_sort(self.list, Len(self.list))
                 layer == IF Len(alpha_sort) % 2 = 1
                              THEN alpha_sort[(Len(alpha_sort) \div 2) + 1].value
                              ELSE alpha_sort[((Len(alpha_sort) \div 2) - 1) + 1].value
             IN SequenceLayerStore_erase(self, layer).store
        ELSE self

RECURSIVE SequenceLayerStore_get_color_loop_downwards(_, _, _, _, _, _)
\* the loop taking the list from its last position to its first
SequenceLayerStore_get_color_loop_downwards(list, i, color, timestamp, x, y) ==
    IF i >= Len(list) THEN Returned(color)
    ELSE SequenceLayerStore_get_color_loop_downwards(
             list, i + 1,
             Layer_apply(list[Len(list) - i].value, color, timestamp, x, y),
             timestamp, x, y)

RECURSIVE SequenceLayerStore_get_color_loop(_, _, _, _, _, _)
\* for i in range(len(self.list)), from the Python position i on
SequenceLayerStore_get_color_loop(list, i, color, timestamp, x, y) ==
    IF i >= Len(list) THEN Returned(color)
    ELSE SequenceLayerStore_get_color_loop(
             list, i + 1, Layer_apply(list[i + 1].value, color, timestamp, x, y),
             timestamp, x, y)

SequenceLayerStore_get_color(self, start, timestamp, x, y) ==
    IF Len(self.list) = 0 THEN Returned(start)
    ELSE SequenceLayerStore_get_color_loop(self.list, 0, start, timestamp, x, y)

(***************************************************************************)
(* Dynamic dispatch on the store's class.                                  *)
(***************************************************************************)
LayerStore_get_color(self, start, timestamp, x, y) ==
    CASE self.kind = "SET" -> SetLayerStore_get_color(self, start, timestamp, x, y)
      [] self.kind = "ADD" -> AdditiveLayerStore_get_color(self, start, timestamp, x, y)
      [] self.kind = "SEQUENCE" -> SequenceLayerStore_get_color(self, start, timestamp, x, y)

LayerStore_add(self, layer) ==
    CASE self.kind = "SET" -> SetLayerStore_add(self, layer)
      [] self.kind = "ADD" -> AdditiveLayerStore_add(self, layer)
      [] self.kind = "SEQUENCE" -> SequenceLayerStore_add(self, layer)

LayerStore_erase(self, layer) ==
    CASE self.kind = "SET" -> SetLayerStore_erase(self, layer)
      [] self.kind = "ADD" -> AdditiveLayerStore_erase(self, layer)
      [] self.kind = "SEQUENCE" -> SequenceLayerStore_erase(self, layer)

LayerStore_special(self) ==
    CASE self.kind = "SET" -> SetLayerStore_special(self)
      [] self.kind = "ADD" -> AdditiveLayerStore_special(self)
      [] self.kind = "SEQUENCE" -> SequenceLayerStore_special(self)

(***************************************************************************)
(* Grid: brush size, draw_style and the x-by-y array of stores.            *)
(***************************************************************************)
DRAW_STYLE_SET == "SET"

DRAW_STYLE_ADD == "ADD"

DRAW_STYLE_SEQUENCE == "SEQUENCE"

DRAW_STYLE_OPTIONS == {DRAW_STYLE_SET, DRAW_STYLE_ADD, DRAW_STYLE_SEQUENCE}

DEFAULT_BRUSH_SIZE == 2

MAX_BRUSH == 5

MIN_BRUSH == 0

Cells == (0 .. (GridX - 1)) \X (0 .. (GridY - 1))

\* Grid.__init__: self.grid[i][j] for every i, j
Grid_init(style) ==
    [c \in Cells |->
        CASE style = DRAW_STYLE_SET -> SetLayerStore
          [] style = DRAW_STYLE_ADD -> AdditiveLayerStore
          [] style = DRAW_STYLE_SEQUENCE -> SequenceLayerStore]

\* special that leaves out the square (0, 0)
Grid_special_skips_origin(g) ==
    [c \in Cells |-> IF c = <<0, 0>> THEN g[c] ELSE LayerStore_special(g[c])]

Grid_special(g) == [c \in Cells |-> LayerStore_special(g[c])]

(***************************************************************************)
(* PaintAction (action.py): steps, each a grid square and a layer, and     *)
(* is_special.  The actions the front end hands to the trackers are        *)
(* 1 .. NumActions: the last one is the special action, the others are     *)
(* strokes over the squares (0,0) and (1,0) that paint layer 0 on one and  *)
(* layer 1 on the other.                                                   *)
(***************************************************************************)
ActionIds == 1 .. NumActions

PaintAction_is_special(a) == a = NumActions

PaintStep(square, layer) == [affected_grid_square |-> square, layer |-> layer]

PaintAction_steps(a) ==
    IF PaintAction_is_special(a) THEN <<>>
    ELSE <<PaintStep(<<0, 0>>, a % 2), PaintStep(<<1, 0>>, (a + 1) % 2)>>

PaintStep_redo_apply(step, g) ==
    [g EXCEPT ![step.affected_grid_square] = LayerStore_add(@, step.layer).store]

PaintStep_undo_apply(step, g) ==
    [g EXCEPT ![step.affected_grid_square] = LayerStore_erase(@, step.layer).store]

RECURSIVE PaintAction_redo_steps(_, _, _)
\* for step in self.steps: step.redo_apply(grid), from step i on
PaintAction_redo_steps(steps, i, g) ==
    IF i > Len(steps) THEN g
    ELSE PaintAction_redo_steps(steps, i + 1, PaintStep_redo_apply(steps[i], g))

RECURSIVE PaintAction_undo_steps(_, _, _)
\* for step in self.steps: step.undo_apply(grid), from step i on
PaintAction_undo_steps(steps, i, g) ==
    IF i > Len(steps) THEN g
    ELSE PaintAction_undo_steps(steps, i + 1, PaintStep_undo_apply(steps[i], g))

PaintAction_redo_apply(a, g) ==
    IF PaintAction_is_special(a) THEN Grid_special(g)
    ELSE PaintAction_redo_steps(PaintAction_steps(a), 1, g)

PaintAction_undo_apply(a, g) ==
    IF PaintAction_is_special(a) THEN Grid_special(g)
    ELSE PaintAction_undo_steps(PaintAction_steps(a), 1, g)

(***************************************************************************)
(* State.                                                                  *)
(*   brush_size,           the Grid                                        *)
(*   draw_style, grid                                                      *)
(*   Undo_list, Redo_list  UndoTracker                                     *)
(*   replay_sample_list    ReplayTracker                                   *)
(*   op, arg, ret          the last call: its name, its PaintAction        *)
(*                         argument (0 if none) and what it returned       *)
(*   added, fresh          history of UndoTracker.add_action: the actions  *)
(*                         it was called with, and whether every call so   *)
(*                         far got an action no earlier call got (added is *)
(*                         no longer tracked once fresh is FALSE)          *)
(*   prior, trip           history of UndoTracker.undo and redo: the two   *)
(*                         stacks before the last call, and the call       *)
(*                         before the last one (its name, what it returned *)
(*                         and the two stacks before it); kept across undo *)
(*                         and redo calls only                             *)
(*   log, plays, started   history of ReplayTracker: the entries its       *)
(*                         add_action has appended, in order; how many     *)
(*                         entries play_next_action has played; whether    *)
(*                         start_replay was called since the last          *)
(*                         add_action                                      *)
(*   loop                  history of a playback loop: how many entries    *)
(*                         the log held after the last add_action, and how *)
(*                         many play_next_action calls were made since     *)
(*                         (counted up to two more than those entries)     *)
(*   snap                  history of the last apply-layer action drawn on *)
(*                         the grid: the action, the grid before it was    *)
(*                         drawn, and whether the next thing done to the   *)
(*                         grid was to undo it ("drawn", then "undone")    *)
(*   layer_store           one LayerStore, of the class draw_style names,  *)
(*                         driven directly by add, erase, special and      *)
(*                         get_color (arg is then the Layer argument)      *)
(*   color, query          what get_color returned and for which start,    *)
(*                         timestamp, x and y, if it was the last call     *)
(*   run                   history of special(): how many calls were made  *)
(*                         since the last add or erase, and the store      *)
(*                         before the first of them                        *)
(*   arrival               history of a SequenceLayerStore: the layers it  *)
(*                         stores, in the order they were added            *)
(***************************************************************************)
VARIABLES brush_size, draw_style, grid, Undo_list, Redo_list, replay_sample_list,
          op, arg, ret, added, fresh, log, plays, started, snap,
          layer_store, color, query, run, arrival, prior, trip, loop

vars == <<brush_size, draw_style, grid, Undo_list, Redo_list, replay_sample_list,
          op, arg, ret, added, fresh, log, plays, started, snap,
          layer_store, color, query, run, arrival, prior, trip, loop>>

storeVars == <<layer_store, color, query, run, arrival>>

undoVars == <<Undo_list, Redo_list, added, fresh, prior, trip>>

replayVars == <<replay_sample_list, log, plays, started, loop>>

NoItem == ListItem(0, FALSE)

Stacks(undo, redo) == [Undo_list |-> undo.items, Redo_list |-> redo.items]

NoStacks == [Undo_list |-> <<>>, Redo_list |-> <<>>]

NoTrip == [op |-> "init", ret |-> RetNone, stacks |-> NoStacks]

\* the store Grid.__init__ creates for a square
LayerStore_new(style) ==
    CASE style = DRAW_STYLE_SET -> SetLayerStore
      [] style = DRAW_STYLE_ADD -> AdditiveLayerStore
      [] style = DRAW_STYLE_SEQUENCE -> SequenceLayerStore

\* the arguments get_color is called with: two start colours, each at its
\* own timestamp and position
Query(start, timestamp, x, y) == [start |-> start, timestamp |-> timestamp, x |-> x, y |-> y]

Queries == {Query(0, 0, 0, 0), Query(1, 1, 1, 0)}

NoQuery == Query(0 - 1, 0, 0, 0)

NoSnap(style) == [stage |-> "none", act |-> 0, before |-> Grid_init(style)]

Init ==
    /\ brush_size = DEFAULT_BRUSH_SIZE
    /\ draw_style \in DRAW_STYLE_OPTIONS
    /\ grid = Grid_init(draw_style)
    /\ Undo_list = ArrayStack(StackCap)
    /\ Redo_list = ArrayStack(StackCap)
    /\ replay_sample_list = CircularQueue(QueueCap, NoItem)
    /\ op = "init"
    /\ arg = 0
    /\ ret = RetNone
    /\ added = {}
    /\ prior = NoStacks
    /\ trip = NoTrip
    /\ fresh = TRUE
    /\ log = <<>>
    /\ plays = 0
    /\ started = FALSE
    /\ loop = [n |-> 0, calls |-> 0]
    /\ snap = NoSnap(draw_style)
    /\ layer_store = LayerStore_new(draw_style)
    /\ color = NoReturn
    /\ query = NoQuery
    /\ run = [count |-> 0, before |-> layer_store]
    /\ arrival = <<>>

\* the history variables prior and trip after the call of that name
TripAfter(call) ==
    /\ prior' = IF call \in {"undo", "redo"}
                   THEN Stacks(Undo_list, Redo_list)
                   ELSE NoStacks
    /\ trip' = IF call \in {"undo", "redo"} /\ op \in {"undo", "redo"}
                  THEN [op |-> op, ret |-> ret, stacks |-> prior]
                  ELSE NoTrip

\* the history variables after add_action(action)
AddedAfter(action) ==
    /\ fresh' = (fresh /\ action \notin added)
    /\ added' = IF fresh' THEN added \cup {action} ELSE {}

(***************************************************************************)
(* UndoTracker                                                             *)
(***************************************************************************)
\* a variant that forgets to reset Redo_list
UndoTracker_add_action_keeps_redo(action) ==
    /\ Redo_list' = Redo_list
    /\ IF ArrayStack_is_full(Undo_list)
          THEN /\ Undo_list' = Undo_list
               /\ ret' = RetBool(FALSE)
          ELSE /\ Undo_list' = ArrayStack_push(Undo_list, action)
               /\ ret' = RetBool(TRUE)
    /\ op' = "add_action"
    /\ TripAfter("add_action")
    /\ arg' = action
    /\ AddedAfter(action)
    /\ UNCHANGED <<storeVars, snap, brush_size, draw_style, grid, replayVars>>

\* a variant that pushes without asking is_full: the push grows the stack
UndoTracker_add_action_unguarded(action) ==
    /\ Redo_list' = IF Len(Redo_list.items) > 0 THEN ArrayStack(StackCap) ELSE Redo_list
    /\ Undo_list' = ArrayStack_push(Undo_list, action)
    /\ ret' = RetBool(TRUE)
    /\ op' = "add_action"
    /\ TripAfter("add_action")
    /\ arg' = action
    /\ AddedAfter(action)
    /\ UNCHANGED <<storeVars, snap, brush_size, draw_style, grid, replayVars>>

UndoTracker_add_action(action) ==
    /\ Redo_list' = IF Len(Redo_list.items) > 0 THEN ArrayStack(StackCap) ELSE Redo_list
    /\ IF ArrayStack_is_full(Undo_list)
          THEN /\ Undo_list' = Undo_list
               /\ ret' = RetBool(FALSE)
          ELSE /\ Undo_list' = ArrayStack_push(Undo_list, action)
               /\ ret' = RetBool(TRUE)
    /\ op' = "add_action"
    /\ TripAfter("add_action")
    /\ arg' = action
    /\ AddedAfter(action)
    /\ UNCHANGED <<storeVars, snap, brush_size, draw_style, grid, replayVars>>

\* a variant that replays the action forward instead of inverting it
UndoTracker_undo_applies_forward ==
    /\ IF ArrayStack_is_empty(Undo_list)
          THEN /\ ret' = RetNone
               /\ UNCHANGED <<Undo_list, Redo_list, grid>>
          ELSE LET Undo_item == ArrayStack_peek(Undo_list) IN
               /\ Undo_list' = ArrayStack_pop(Undo_list)
               /\ grid' = PaintAction_redo_apply(Undo_item, grid)
               /\ IF ArrayStack_is_full(Redo_list)
                     THEN /\ Redo_list' = Redo_list
                          /\ ret' = RetRaised
                     ELSE /\ Redo_list' = ArrayStack_push(Redo_list, Undo_item)
                          /\ ret' = RetAction(Undo_item)
    /\ op' = "undo"
    /\ TripAfter("undo")
    /\ arg' = 0
    /\ UNCHANGED <<storeVars, snap, brush_size, draw_style, replayVars, added, fresh>>

\* a variant that reads the top of Undo_list without popping it
UndoTracker_undo_peeks ==
    /\ IF ArrayStack_is_empty(Undo_list)
          THEN /\ ret' = RetNone
               /\ UNCHANGED <<Undo_list, Redo_list, grid>>
          ELSE LET Undo_item == ArrayStack_peek(Undo_list) IN
               /\ Undo_list' = Undo_list
               /\ grid' = PaintAction_undo_apply(Undo_item, grid)
               /\ IF ArrayStack_is_full(Redo_list)
                     THEN /\ Redo_list' = Redo_list
                          /\ ret' = RetRaised
                     ELSE /\ Redo_list' = ArrayStack_push(Redo_list, Undo_item)
                          /\ ret' = RetAction(Undo_item)
    /\ op' = "undo"
    /\ TripAfter("undo")
    /\ arg' = 0
    /\ UNCHANGED <<storeVars, snap, brush_size, draw_style, replayVars, added, fresh>>

\* ArrayStack.push on a full stack raises; the handler stops there
\* a variant that puts the undone action under the actions Redo_list holds
UndoTracker_undo_pushes_below ==
    /\ IF ArrayStack_is_empty(Undo_list)
          THEN /\ ret' = RetNone
               /\ UNCHANGED <<Undo_list, Redo_list, grid>>
          ELSE LET Undo_item == ArrayStack_peek(Undo_list) IN
               /\ Undo_list' = ArrayStack_pop(Undo_list)
               /\ grid' = PaintAction_undo_apply(Undo_item, grid)
               /\ IF ArrayStack_is_full(Redo_list)
                     THEN /\ Redo_list' = Redo_list
                          /\ ret' = RetRaised
                     ELSE /\ Redo_list' = [Redo_list EXCEPT !.items = <<Undo_item>> \o @]
                          /\ ret' = RetAction(Undo_item)
    /\ op' = "undo"
    /\ TripAfter("undo")
    /\ arg' = 0
    /\ UNCHANGED <<storeVars, snap, brush_size, draw_style, replayVars, added, fresh>>

UndoTracker_undo ==
    /\ IF ArrayStack_is_empty(Undo_list)
          THEN /\ ret' = RetNone
               /\ UNCHANGED <<Undo_list, Redo_list, grid>>
          ELSE LET Undo_item == ArrayStack_peek(Undo_list) IN
               /\ Undo_list' = ArrayStack_pop(Undo_list)
               /\ grid' = PaintAction_undo_apply(Undo_item, grid)
               /\ IF ArrayStack_is_full(Redo_list)
                     THEN /\ Redo_list' = Redo_list
                          /\ ret' = RetRaised
                     ELSE /\ Redo_list' = ArrayStack_push(Redo_list, Undo_item)
                          /\ ret' = RetAction(Undo_item)
    /\ op' = "undo"
    /\ TripAfter("undo")
    /\ arg' = 0
    /\ UNCHANGED <<storeVars, snap, brush_size, draw_style, replayVars, added, fresh>>

\* a variant that pushes the redone action back onto Redo_list
UndoTracker_redo_pushes_redo ==
    /\ IF ArrayStack_is_empty(Redo_list)
          THEN /\ ret' = RetNone
               /\ UNCHANGED <<Undo_list, Redo_list, grid>>
          ELSE LET Redo_item == ArrayStack_peek(Redo_list) IN
               /\ grid' = PaintAction_redo_apply(Redo_item, grid)
               /\ Redo_list' = ArrayStack_push(ArrayStack_pop(Redo_list), Redo_item)
               /\ Undo_list' = Undo_list
               /\ ret' = RetAction(Redo_item)
    /\ op' = "redo"
    /\ TripAfter("redo")
    /\ arg' = 0
    /\ UNCHANGED <<storeVars, snap, brush_size, draw_style, replayVars, added, fresh>>

\* a variant that leaves the redone action on Redo_list
UndoTracker_redo_peeks ==
    /\ IF ArrayStack_is_empty(Redo_list)
          THEN /\ ret' = RetNone
               /\ UNCHANGED <<Undo_list, Redo_list, grid>>
          ELSE LET Redo_item == ArrayStack_peek(Redo_list) IN
               /\ Redo_list' = Redo_list
               /\ grid' = PaintAction_redo_apply(Redo_item, grid)
               /\ IF ArrayStack_is_full(Undo_list)
                     THEN /\ Undo_list' = Undo_list
                          /\ ret' = RetRaised
                     ELSE /\ Undo_list' = ArrayStack_push(Undo_list, Redo_item)
                          /\ ret' = RetAction(Redo_item)
    /\ op' = "redo"
    /\ TripAfter("redo")
    /\ arg' = 0
    /\ UNCHANGED <<storeVars, snap, brush_size, draw_style, replayVars, added, fresh>>

UndoTracker_redo ==
    /\ IF ArrayStack_is_empty(Redo_list)
          THEN /\ ret' = RetNone
               /\ UNCHANGED <<Undo_list, Redo_list, grid>>
          ELSE LET Redo_item == ArrayStack_peek(Redo_list) IN
               /\ Redo_list' = ArrayStack_pop(Redo_list)
               /\ grid' = PaintAction_redo_apply(Redo_item, grid)
               /\ IF ArrayStack_is_full(Undo_list)
                     THEN /\ Undo_list' = Undo_list
                          /\ ret' = RetRaised
                     ELSE /\ Undo_list' = ArrayStack_push(Undo_list, Redo_item)
                          /\ ret' = RetAction(Redo_item)
    /\ op' = "redo"
    /\ TripAfter("redo")
    /\ arg' = 0
    /\ UNCHANGED <<storeVars, snap, brush_size, draw_style, replayVars, added, fresh>>

NextUndo ==
    \/ \E action \in ActionIds : UndoTracker_add_action(action)
    \/ UndoTracker_undo
    \/ UndoTracker_redo

SpecUndo == Init /\ [][NextUndo]_vars

(***************************************************************************)
(* ReplayTracker                                                           *)
(***************************************************************************)
\* a variant that also applies the action to the grid while recording it
ReplayTracker_add_action_applies(action, is_undo) ==
    LET item == ListItem(action, is_undo) IN
    /\ Len(log) < MaxRecords
    /\ grid' = PaintAction_redo_apply(action, grid)
    /\ IF CircularQueue_is_full(replay_sample_list)
          THEN /\ ret' = RetRaised
               /\ UNCHANGED <<replay_sample_list, log>>
          ELSE /\ replay_sample_list' = CircularQueue_append(replay_sample_list, item)
               /\ log' = Append(log, item)
               /\ ret' = RetNone
    /\ op' = "replay_add_action"
    /\ loop' = [n |-> replay_sample_list'.length, calls |-> 0]
    /\ arg' = action
    /\ started' = FALSE
    /\ UNCHANGED <<storeVars, snap, brush_size, draw_style, undoVars, plays>>

\* CircularQueue.append on a full queue raises; the method returns nothing
ReplayTracker_add_action(action, is_undo) ==
    LET item == ListItem(action, is_undo) IN
    /\ Len(log) < MaxRecords
    /\ IF CircularQueue_is_full(replay_sample_list)
          THEN /\ ret' = RetRaised
               /\ UNCHANGED <<replay_sample_list, log>>
          ELSE /\ replay_sample_list' = CircularQueue_append(replay_sample_list, item)
               /\ log' = Append(log, item)
               /\ ret' = RetNone
    /\ op' = "replay_add_action"
    /\ loop' = [n |-> replay_sample_list'.length, calls |-> 0]
    /\ arg' = action
    /\ started' = FALSE
    /\ UNCHANGED <<storeVars, snap, brush_size, draw_style, grid, undoVars, plays>>

RECURSIVE CircularQueue_of(_, _, _)
\* a queue of that capacity holding the last entries of seq that fit
CircularQueue_of(seq, max_capacity, empty) ==
    IF seq = <<>> THEN CircularQueue(max_capacity, empty)
    ELSE IF Len(seq) > max_capacity
        THEN CircularQueue_of(Tail(seq), max_capacity, empty)
    ELSE CircularQueue_append(
             CircularQueue_of(SubSeq(seq, 1, Len(seq) - 1), max_capacity, empty),
             seq[Len(seq)])

\* a variant that rewinds the playback to the front of what was recorded
ReplayTracker_start_replay_rewinds ==
    /\ replay_sample_list' = CircularQueue_of(log, QueueCap, NoItem)
    /\ op' = "start_replay"
    /\ loop' = loop
    /\ arg' = 0
    /\ ret' = RetNone
    /\ started' = TRUE
    /\ UNCHANGED <<storeVars, snap, brush_size, draw_style, grid, undoVars, log, plays>>

ReplayTracker_start_replay ==
    /\ op' = "start_replay"
    /\ loop' = loop
    /\ arg' = 0
    /\ ret' = RetNone
    /\ started' = TRUE
    /\ UNCHANGED <<storeVars, snap, brush_size, draw_style, grid, undoVars, replay_sample_list, log, plays>>

\* a variant that replays every entry forward, whatever its is_undo flag
ReplayTracker_play_next_action_ignores_is_undo ==
    /\ IF CircularQueue_is_empty(replay_sample_list)
          THEN /\ ret' = RetBool(TRUE)
               /\ UNCHANGED <<replay_sample_list, grid, plays>>
          ELSE LET action == CircularQueue_front_item(replay_sample_list) IN
               /\ replay_sample_list' = CircularQueue_serve(replay_sample_list)
               /\ grid' = PaintAction_redo_apply(action.value, grid)
               /\ plays' = plays + 1
               /\ ret' = RetBool(FALSE)
    /\ op' = "play_next_action"
    /\ loop' = [loop EXCEPT !.calls = IF @ < loop.n + 2 THEN @ + 1 ELSE @]
    /\ arg' = 0
    /\ UNCHANGED <<storeVars, snap, brush_size, draw_style, undoVars, log, started>>

\* a variant that reports the end as soon as it has played the last entry
ReplayTracker_play_next_action_reports_last ==
    /\ IF CircularQueue_is_empty(replay_sample_list)
          THEN /\ ret' = RetBool(TRUE)
               /\ UNCHANGED <<replay_sample_list, grid, plays>>
          ELSE LET action == CircularQueue_front_item(replay_sample_list) IN
               /\ replay_sample_list' = CircularQueue_serve(replay_sample_list)
               /\ grid' = IF action.key
                             THEN PaintAction_undo_apply(action.value, grid)
                             ELSE PaintAction_redo_apply(action.value, grid)
               /\ plays' = plays + 1
               /\ ret' = RetBool(CircularQueue_is_empty(replay_sample_list'))
    /\ op' = "play_next_action"
    /\ loop' = [loop EXCEPT !.calls = IF @ < loop.n + 2 THEN @ + 1 ELSE @]
    /\ arg' = 0
    /\ UNCHANGED <<storeVars, snap, brush_size, draw_style, undoVars, log, started>>

ReplayTracker_play_next_action ==
    /\ IF CircularQueue_is_empty(replay_sample_list)
          THEN /\ ret' = RetBool(TRUE)
               /\ UNCHANGED <<replay_sample_list, grid, plays>>
          ELSE LET action == CircularQueue_front_item(replay_sample_list) IN
               /\ replay_sample_list' = CircularQueue_serve(replay_sample_list)
               /\ grid' = IF action.key
                             THEN PaintAction_undo_apply(action.value, grid)
                             ELSE PaintAction_redo_apply(action.value, grid)
               /\ plays' = plays + 1
               /\ ret' = RetBool(FALSE)
    /\ op' = "play_next_action"
    /\ loop' = [loop EXCEPT !.calls = IF @ < loop.n + 2 THEN @ + 1 ELSE @]
    /\ arg' = 0
    /\ UNCHANGED <<storeVars, snap, brush_size, draw_style, undoVars, log, started>>

NextReplay ==
    \/ \E action \in ActionIds, is_undo \in BOOLEAN :
           ReplayTracker_add_action(action, is_undo)
    \/ ReplayTracker_start_replay
    \/ ReplayTracker_play_next_action

SpecReplay == Init /\ [][NextReplay]_vars

(***************************************************************************)
(* PaintAction on the Grid.  The callers of redo_apply and undo_apply      *)
(* (the drawing front end, UndoTracker.undo/redo and                       *)
(* ReplayTracker.play_next_action) apply any action in either direction.   *)
(***************************************************************************)
Grid_redo_apply(a) ==
    /\ grid' = PaintAction_redo_apply(a, grid)
    /\ snap' = IF PaintAction_is_special(a) THEN NoSnap(draw_style)
               ELSE [stage |-> "drawn", act |-> a, before |-> grid]
    /\ op' = "redo_apply"
    /\ arg' = a
    /\ ret' = RetNone
    /\ UNCHANGED <<storeVars, brush_size, draw_style, undoVars, replayVars>>

Grid_undo_apply(a) ==
    /\ grid' = PaintAction_undo_apply(a, grid)
    /\ snap' = IF snap.stage = "drawn" /\ snap.act = a
                  THEN [snap EXCEPT !.stage = "undone"]
                  ELSE NoSnap(draw_style)
    /\ op' = "undo_apply"
    /\ arg' = a
    /\ ret' = RetNone
    /\ UNCHANGED <<storeVars, brush_size, draw_style, undoVars, replayVars>>

NextPaint ==
    \/ \E a \in ActionIds : Grid_redo_apply(a)
    \/ \E a \in ActionIds : Grid_undo_apply(a)

SpecPaint == Init /\ [][NextPaint]_vars

(***************************************************************************)
(* The Grid driven directly: its brush size, special(), and add on the     *)
(* store grid[x][y] hands out.  Layer 1 is painted on two of the squares.  *)
(***************************************************************************)
\* a variant that lets the brush grow past MAX_BRUSH
Grid_increase_brush_size_unclamped ==
    /\ brush_size' = brush_size + 1
    /\ brush_size < MAX_BRUSH + 1
    /\ op' = "increase_brush_size"
    /\ arg' = 0
    /\ ret' = RetNone
    /\ UNCHANGED <<storeVars, snap, draw_style, grid, undoVars, replayVars>>

Grid_increase_brush_size ==
    /\ brush_size' = IF brush_size < MAX_BRUSH THEN brush_size + 1 ELSE brush_size
    /\ op' = "increase_brush_size"
    /\ arg' = 0
    /\ ret' = RetNone
    /\ UNCHANGED <<storeVars, snap, draw_style, grid, undoVars, replayVars>>

Grid_decrease_brush_size ==
    /\ brush_size' = IF brush_size > MIN_BRUSH THEN brush_size - 1 ELSE brush_size
    /\ op' = "decrease_brush_size"
    /\ arg' = 0
    /\ ret' = RetNone
    /\ UNCHANGED <<storeVars, snap, draw_style, grid, undoVars, replayVars>>

Grid_do_special ==
    /\ grid' = Grid_special(grid)
    /\ op' = "grid_special"
    /\ arg' = 0
    /\ ret' = RetNone
    /\ UNCHANGED <<storeVars, snap, brush_size, draw_style, undoVars, replayVars>>

\* grid[x][y].add(layer)
Grid_getitem_add(c, layer) ==
    LET out == LayerStore_add(grid[c], layer) IN
    /\ grid' = [grid EXCEPT ![c] = out.store]
    /\ op' = "getitem_add"
    /\ arg' = layer
    /\ ret' = RetBool(out.changed)
    /\ UNCHANGED <<storeVars, snap, brush_size, draw_style, undoVars, replayVars>>

NextGrid ==
    \/ Grid_increase_brush_size
    \/ Grid_decrease_brush_size
    \/ Grid_do_special
    \/ \E c \in {<<0, 0>>, <<1, 0>>} : Grid_getitem_add(c, 1)

SpecGrid == Init /\ [][NextGrid]_vars

(***************************************************************************)
(* One LayerStore driven directly.  The three specifications fix the class *)
(* and the Layer arguments: every Layer object for SetLayerStore and       *)
(* SequenceLayerStore, layers 0 and 1 for AdditiveLayerStore.              *)
(***************************************************************************)
\* the history variable arrival once the store has become after
ArrivalAfter(after, new) ==
    LET Stored(l) == \E i \in 1 .. Len(after.list) : after.list[i].value = l
    IN arrival' = IF after.kind = "SEQUENCE"
                     THEN SelectSeq(arrival, Stored) \o new
                     ELSE arrival

Store_add(layer) ==
    LET out == LayerStore_add(layer_store, layer) IN
    /\ layer_store' = out.store
    /\ ret' = RetBool(out.changed)
    /\ op' = "add"
    /\ ArrivalAfter(out.store, IF out.changed THEN <<layer>> ELSE <<>>)
    /\ arg' = layer
    /\ run' = [count |-> 0, before |-> layer_store']
    /\ color' = NoReturn
    /\ query' = NoQuery
    /\ UNCHANGED <<snap, brush_size, draw_style, grid, undoVars, replayVars>>

Store_erase(layer) ==
    LET out == LayerStore_erase(layer_store, layer) IN
    /\ layer_store' = out.store
    /\ ret' = RetBool(out.changed)
    /\ op' = "erase"
    /\ ArrivalAfter(out.store, <<>>)
    /\ arg' = layer
    /\ run' = [count |-> 0, before |-> layer_store']
    /\ color' = NoReturn
    /\ query' = NoQuery
    /\ UNCHANGED <<snap, brush_size, draw_style, grid, undoVars, replayVars>>

Store_special ==
    /\ run.count < MaxSpecials
    /\ layer_store' = LayerStore_special(layer_store)
    /\ ret' = RetNone
    /\ op' = "special"
    /\ ArrivalAfter(layer_store', <<>>)
    /\ arg' = NoLayer
    /\ run' = [run EXCEPT !.count = @ + 1]
    /\ color' = NoReturn
    /\ query' = NoQuery
    /\ UNCHANGED <<snap, brush_size, draw_style, grid, undoVars, replayVars>>

Store_get_color(q) ==
    LET out == LayerStore_get_color(layer_store, Colour(q.start), q.timestamp, q.x, q.y) IN
    /\ color' = out
    /\ query' = q
    /\ ret' = IF out.tag = "raised" THEN RetRaised ELSE RetNone
    /\ op' = "get_color"
    /\ arg' = NoLayer
    /\ UNCHANGED <<layer_store, run, arrival, snap, brush_size, draw_style, grid, undoVars, replayVars>>

InitSet == Init /\ draw_style = DRAW_STYLE_SET

NextSet ==
    \/ \E layer \in LayerInstances : Store_add(layer)
    \/ \E layer \in LayerInstances : Store_erase(layer)
    \/ Store_special
    \/ \E q \in Queries : Store_get_color(q)

SpecSet == InitSet /\ [][NextSet]_vars

InitAdditive == Init /\ draw_style = DRAW_STYLE_ADD

NextAdditive ==
    \/ \E layer \in {0, 1} : Store_add(layer)
    \/ \E layer \in {0, 1} : Store_erase(layer)
    \/ Store_special
    \/ \E q \in Queries : Store_get_color(q)

SpecAdditive == InitAdditive /\ [][NextAdditive]_vars

InitSequence == Init /\ draw_style = DRAW_STYLE_SEQUENCE

NextSequence ==
    \/ \E layer \in LayerInstances : Store_add(layer)
    \/ \E layer \in LayerInstances : Store_erase(layer)
    \/ Store_special
    \/ \E q \in Queries : Store_get_color(q)

SpecSequence == InitSequence /\ [][NextSequence]_vars

(***************************************************************************)
(* Claims about UndoTracker, checked under SpecUndo.                       *)
(***************************************************************************)
\* the elements of a stack or of any sequence, as a set
Elements(seq) == {seq[i] : i \in 1 .. Len(seq)}

\* C1: add_action always leaves the redo stack empty, whether or not it pushed
\* the action, and a redo that follows an add_action returns None and changes
\* neither stack nor the grid.
C1_AddActionPurgesRedo ==
    /\ [](op = "add_action" => Redo_list.items = <<>>)
    /\ [][(op = "add_action" /\ op' = "redo")
            => /\ ret' = RetNone
               /\ UNCHANGED <<Undo_list, Redo_list, grid>>]_vars

\* add_action(A), undo, add_action(B) has happened: two distinct actions were
\* recorded, no action twice, the last call was add_action and it pushed, yet
\* only one action is on the undo stack: the other one had been undone, and
\* add_action has purged it from the redo stack.
C1_Witness ==
    /\ op = "add_action"
    /\ ret = RetBool(TRUE)
    /\ fresh
    /\ Cardinality(added) = 2
    /\ Len(Undo_list.items) = 1
    /\ Redo_list.items = <<>>

\* C2: undo on an empty undo stack returns None and changes nothing; otherwise
\* it pops the top action, applies its inverse effect to the grid once, pushes
\* it on the redo stack and returns it.
C2_UndoContract ==
    [][op' = "undo"
         => IF Undo_list.items = <<>>
               THEN /\ ret' = RetNone
                    /\ UNCHANGED <<Undo_list, Redo_list, grid>>
               ELSE LET top == Undo_list.items[Len(Undo_list.items)] IN
                    /\ Undo_list'.items = SubSeq(Undo_list.items, 1, Len(Undo_list.items) - 1)
                    /\ grid' = PaintAction_undo_apply(top, grid)
                    /\ Redo_list'.items = Append(Redo_list.items, top)
                    /\ ret' = RetAction(top)]_vars

\* two undos in a row have returned actions and the second one changed the grid
C2_Witness ==
    /\ op = "undo"
    /\ ret.tag = "action"
    /\ Len(Redo_list.items) >= 2
    /\ grid # Grid_init(draw_style)

C4_OnePlacePerAction ==
    /\ [](fresh => Cardinality(Elements(Undo_list.items \o Redo_list.items))
                      = Len(Undo_list.items) + Len(Redo_list.items))
    /\ [][(op' \in {"undo", "redo"})
            => /\ Elements(Undo_list'.items \o Redo_list'.items)
                    = Elements(Undo_list.items \o Redo_list.items)
               /\ Len(Undo_list'.items) + Len(Redo_list'.items)
                    = Len(Undo_list.items) + Len(Redo_list.items)]_vars
    /\ [][op' = "add_action"
            => /\ Undo_list'.items \in {Undo_list.items, Append(Undo_list.items, arg')}
               /\ Redo_list'.items = <<>>]_vars

\* distinct actions were recorded and sit on both stacks
C4_Witness ==
    /\ fresh
    /\ Cardinality(added) >= 2
    /\ Len(Undo_list.items) >= 1
    /\ Len(Redo_list.items) >= 1
    /\ op \in {"undo", "redo"}

\* C5: add_action on a full undo stack returns False, leaves the undo stack
\* as it is, raises nothing, and the redo stack is empty afterwards.
C5_AddActionOnFullStack ==
    [][(op' = "add_action" /\ ArrayStack_is_full(Undo_list))
         => /\ ret' = RetBool(FALSE)
            /\ Undo_list' = Undo_list
            /\ Redo_list'.items = <<>>]_vars

\* an add_action was refused on a full undo stack
C5_Witness ==
    /\ op = "add_action"
    /\ ret = RetBool(FALSE)
    /\ Len(Undo_list.items) = StackCap

(***************************************************************************)
(* Claims about ReplayTracker, checked under SpecReplay.                   *)
(***************************************************************************)
\* the effect on the grid of playing one recorded entry
PlayedOn(item, g) ==
    IF item.key THEN PaintAction_undo_apply(item.value, g)
    ELSE PaintAction_redo_apply(item.value, g)

\* C6: the i-th play_next_action that plays returns False and applies the
\* i-th recorded entry, inverse if its is_undo flag is set and forward
\* otherwise; a call with every recorded entry played returns True; the log
\* holds exactly the entries not played yet, in recording order.
C6_ReplayFidelity ==
    /\ [](/\ plays <= Len(log)
          /\ CircularQueue_items(replay_sample_list) = SubSeq(log, plays + 1, Len(log)))
    /\ [][op' = "play_next_action"
            => IF plays < Len(log)
                  THEN /\ ret' = RetBool(FALSE)
                       /\ grid' = PlayedOn(log[plays + 1], grid)
                       /\ plays' = plays + 1
                  ELSE /\ ret' = RetBool(TRUE)
                       /\ grid' = grid
                       /\ plays' = plays]_vars

\* the recording of replay.py's own test, [A special, B, B as undo], has been
\* played to its third entry
C6_Witness ==
    /\ op = "play_next_action"
    /\ ret = RetBool(FALSE)
    /\ plays = 3
    /\ log = <<ListItem(NumActions, FALSE), ListItem(1, FALSE), ListItem(1, TRUE)>>

\* C7 as claimed: add_action on a full log is reported as dropped, raises
\* nothing and leaves the log unchanged.
C7_FullLogAddIsReported ==
    [][(op' = "replay_add_action" /\ CircularQueue_is_full(replay_sample_list))
         => /\ ret' = RetBool(FALSE)
            /\ replay_sample_list' = replay_sample_list]_vars

\* C8: once every recorded entry is played the log is empty, and
\* play_next_action returns True and changes neither the grid nor the log;
\* start_replay changes neither, so this lasts until add_action records again.
C8_NoRestartAfterDrain ==
    /\ [](plays = Len(log) => CircularQueue_is_empty(replay_sample_list))
    /\ [][(op' = "play_next_action" /\ plays = Len(log))
            => /\ ret' = RetBool(TRUE)
               /\ UNCHANGED <<grid, replay_sample_list>>]_vars
    /\ [][op' = "start_replay" => UNCHANGED <<grid, replay_sample_list>>]_vars

\* a log of two entries was drained, start_replay was called again and the
\* play_next_action after it found nothing left
C8_Witness ==
    /\ op = "play_next_action"
    /\ ret = RetBool(TRUE)
    /\ started
    /\ plays = Len(log)
    /\ plays >= 2
    /\ grid # Grid_init(draw_style)

\* C9: add_action leaves the grid and the undo history alone and changes the
\* log by at most the one entry appended at the back (none when
\* CircularQueue.append refuses it); start_replay leaves the log as it is.
C9_RecordingFrame ==
    /\ [][op' = "replay_add_action"
            => /\ UNCHANGED <<grid, draw_style, Undo_list, Redo_list>>
               /\ IF CircularQueue_is_full(replay_sample_list)
                     THEN replay_sample_list' = replay_sample_list
                     ELSE \E is_undo \in BOOLEAN :
                             CircularQueue_items(replay_sample_list')
                               = Append(CircularQueue_items(replay_sample_list),
                                        ListItem(arg', is_undo))]_vars
    /\ [][op' = "start_replay"
            => /\ replay_sample_list' = replay_sample_list
               /\ UNCHANGED <<grid, draw_style, Undo_list, Redo_list>>]_vars

\* an entry was recorded behind another one while the grid held layers
C9_Witness ==
    /\ op = "replay_add_action"
    /\ ret = RetNone
    /\ replay_sample_list.length >= 2
    /\ grid # Grid_init(draw_style)

(***************************************************************************)
(* Claims about PaintAction and the stores, checked under SpecPaint.       *)
(***************************************************************************)
\* the layers a store holds, in the order it applies them
Held(store) ==
    CASE store.kind = "SET" -> IF store.layer = NoLayer THEN <<>> ELSE <<store.layer>>
      [] store.kind = "ADD" -> CircularQueue_items(store.queue)
      [] store.kind = "SEQUENCE" -> [i \in 1 .. Len(store.list) |-> store.list[i].value]

\* the squares an action addresses
Squares(a) ==
    {PaintAction_steps(a)[i].affected_grid_square : i \in 1 .. Len(PaintAction_steps(a))}

\* the layer an action paints on square c
LayerOn(a, c) ==
    LET i == CHOOSE j \in 1 .. Len(PaintAction_steps(a)) :
                 PaintAction_steps(a)[j].affected_grid_square = c
    IN PaintAction_steps(a)[i].layer

\* C10 as claimed: an apply-layer action drawn and undone right away leaves
\* every addressed square's store holding the layers it held before.
C10_DrawUndoRestores ==
    snap.stage = "undone"
        => \A c \in Squares(snap.act) : Held(grid[c]) = Held(snap.before[c])

\* the stores on which add(layer) followed by erase(layer) gives back the
\* layers held: a SetLayerStore with no layer; an AdditiveLayerStore that is
\* not full and holds nothing but copies of layer; a SequenceLayerStore with
\* no entry of layer's index
Restorable(store, layer) ==
    CASE store.kind = "SET" -> store.layer = NoLayer
      [] store.kind = "ADD" ->
            /\ ~CircularQueue_is_full(store.queue)
            /\ \A i \in 1 .. store.queue.length : Held(store)[i] = layer
      [] store.kind = "SEQUENCE" ->
            \A i \in 1 .. Len(store.list) : store.list[i].key # layer_index(layer)

\* C10 amended: an apply-layer action drawn and undone right away leaves an
\* addressed square's store holding the layers it held before, provided that
\* store was restorable for the action's layer.
C10_DrawUndoRestoresRestorable ==
    snap.stage = "undone"
        => \A c \in Squares(snap.act) :
              Restorable(snap.before[c], LayerOn(snap.act, c))
                  => Held(grid[c]) = Held(snap.before[c])

\* an action was drawn and undone on restorable stores, one of which held
\* layers
C10_Witness ==
    /\ snap.stage = "undone"
    /\ snap.act = 1
    /\ \A c \in Squares(snap.act) : Restorable(snap.before[c], LayerOn(snap.act, c))
    /\ \E c \in Squares(snap.act) : Held(snap.before[c]) # <<>>

(***************************************************************************)
(* Claims about SetLayerStore (SpecSet)                                    *)
(***************************************************************************)
\* the colour a returned get_color of the store gives for the query q
ColourOf(self, q) ==
    LayerStore_get_color(self, Colour(q.start), q.timestamp, q.x, q.y)

Inverted(colour, q) == Layer_apply(invert, colour, q.timestamp, q.x, q.y)

\* C11: SetLayerStore.get_color returns start unchanged whenever no layer is
\* stored, in every reachable state of the store, after any number of special
\* calls and after erase.
C11_NoLayerReturnsStart ==
    (layer_store.kind = "SET" /\ op = "get_color" /\ layer_store.layer = NoLayer)
        => color = Returned(Colour(query.start))

\* C11 as the code has it: with no layer stored, get_color returns start
\* unchanged while the invert flag is off (an even number of special calls so
\* far) and the inverse of start while the flag is on.
C11_NoLayerReturnsStartOrItsInverse ==
    (layer_store.kind = "SET" /\ op = "get_color" /\ layer_store.layer = NoLayer)
        => color = IF layer_store.special_switch
                      THEN Returned(Inverted(Colour(query.start), query))
                      ELSE Returned(Colour(query.start))

\* get_color on a store with no layer after two special calls, the flag off
\* again
C11_Witness ==
    /\ layer_store.kind = "SET"
    /\ op = "get_color"
    /\ layer_store.layer = NoLayer
    /\ run.count = 2
    /\ ~layer_store.special_switch
    /\ color = Returned(Colour(query.start))

\* C12: special flips the two-state flag on every call; after an even number
\* of special calls get_color returns, for every input, the colour it returned
\* before them, and after an odd number the inverse of that colour.
C12_SpecialTogglesInvert ==
    layer_store.kind = "SET"
        => /\ layer_store.special_switch
                  = (run.before.special_switch # (run.count % 2 = 1))
           /\ layer_store.layer = run.before.layer
           /\ \A q \in Queries :
                  /\ ColourOf(run.before, q).tag = "colour"
                  /\ ColourOf(layer_store, q)
                        = IF run.count % 2 = 0
                             THEN ColourOf(run.before, q)
                             ELSE Returned(Inverted(ColourOf(run.before, q).colour, q))

\* three special calls on a store that holds a layer and had the flag on
C12_Witness ==
    /\ layer_store.kind = "SET"
    /\ run.count = 3
    /\ run.before.special_switch
    /\ run.before.layer # NoLayer
    /\ op = "special"

RECURSIVE FoldApply(_, _, _)
\* the left fold of Layer.apply over the layers, first to last
FoldApply(layers, colour, q) ==
    IF layers = <<>> THEN colour
    ELSE FoldApply(Tail(layers),
                   Layer_apply(Head(layers), colour, q.timestamp, q.x, q.y), q)

Reverse(seq) == [i \in 1 .. Len(seq) |-> seq[Len(seq) + 1 - i]]

\* C14: AdditiveLayerStore.get_color, in every state add, erase and special
\* reach, returns start when the store is empty and otherwise the left fold of
\* Layer.apply over the held layers from the oldest to the newest, without
\* raising, also when the front is not at position 0 and the held entries wrap
\* around the end of the array.
C14_AdditiveGetColorIsFold ==
    (layer_store.kind = "ADD" /\ op = "get_color")
        => color = Returned(FoldApply(Held(layer_store), Colour(query.start), query))

\* the same while the held entries do not wrap around the end of the array
C14_AdditiveGetColorIsFoldUnwrapped ==
    (/\ layer_store.kind = "ADD"
     /\ op = "get_color"
     /\ layer_store.queue.front + layer_store.queue.length
            <= CircularQueue_capacity(layer_store.queue))
        => color = Returned(FoldApply(Held(layer_store), Colour(query.start), query))

\* C15: an AdditiveLayerStore never holds more than 100 * T layers; add on a
\* store holding that many returns False and leaves the store unchanged, and
\* every add below capacity returns True and appends the layer at the back,
\* duplicates included.
C15_AdditiveBound ==
    [][layer_store.kind = "ADD"
         => /\ Len(Held(layer_store')) <= AdditiveCapacity
            /\ op' = "add"
                 => IF Len(Held(layer_store)) = AdditiveCapacity
                       THEN /\ ret' = RetBool(FALSE)
                            /\ layer_store' = layer_store
                       ELSE /\ ret' = RetBool(TRUE)
                            /\ Held(layer_store') = Append(Held(layer_store), arg')]_vars

\* a full store refused an add, and it holds a layer twice
C15_Witness ==
    /\ layer_store.kind = "ADD"
    /\ op = "add"
    /\ ret = RetBool(FALSE)
    /\ Len(Held(layer_store)) = AdditiveCapacity
    /\ Held(layer_store)[1] = Held(layer_store)[2]

\* C16: special reverses the order of the held layers without changing which
\* are held or how many; two special calls in a row restore the original
\* order, so get_color gives the same result before and after the two calls.
C16_AdditiveSpecialReverses ==
    layer_store.kind = "ADD"
        => /\ Held(layer_store) = IF run.count % 2 = 1
                                     THEN Reverse(Held(run.before))
                                     ELSE Held(run.before)
           /\ run.count = 2
                 => \A q \in Queries : ColourOf(layer_store, q) = ColourOf(run.before, q)

\* the part of C16 about the order of the held layers alone
C16_AdditiveSpecialReversesOrder ==
    layer_store.kind = "ADD"
        => Held(layer_store) = IF run.count % 2 = 1
                                  THEN Reverse(Held(run.before))
                                  ELSE Held(run.before)

WithoutIndex(list, index) ==
    LET Other(item) == item.key # index IN SelectSeq(list, Other)

\* C18: the stored entries have pairwise distinct layer indices, are held in
\* strictly ascending index order and number at most T; add of a layer whose
\* index is present, even of another Layer object with that index, returns
\* False and leaves the store unchanged; any other add inserts the layer at
\* its sorted position and returns True.
C18_SequenceSorted ==
    [][layer_store.kind = "SEQUENCE"
         => LET list == layer_store.list
                list1 == layer_store'.list
            IN /\ \A i, j \in 1 .. Len(list1) : i < j => list1[i].key < list1[j].key
               /\ \A i \in 1 .. Len(list1) : list1[i].key = layer_index(list1[i].value)
               /\ Len(list1) <= Len(get_layers)
               /\ op' = "add"
                    => IF \E i \in 1 .. Len(list) : list[i].key = layer_index(arg')
                          THEN /\ ret' = RetBool(FALSE)
                               /\ layer_store' = layer_store
                          ELSE /\ ret' = RetBool(TRUE)
                               /\ \E i \in 1 .. Len(list1) :
                                      /\ list1[i] = ListItem(arg', layer_index(arg'))
                                      /\ WithoutIndex(list1, layer_index(arg')) = list]_vars

\* add of a second Layer object with the index of a stored one was refused
C18_Witness ==
    /\ layer_store.kind = "SEQUENCE"
    /\ op = "add"
    /\ ret = RetBool(FALSE)
    /\ Len(layer_store.list) >= 2
    /\ \E i \in 1 .. Len(layer_store.list) :
           /\ layer_store.list[i].key = layer_index(arg)
           /\ layer_store.list[i].value # arg

\* C19: special on an empty store changes nothing; on a store of n >= 1
\* layers it removes exactly the layer at position floor((n-1)/2), 0-based,
\* of the stored layers sorted by name: the middle name for odd n, the smaller
\* of the two middle names for even n.  The others stay, in index order.
C19_SequenceSpecialLowerMedian ==
    [][(layer_store.kind = "SEQUENCE" /\ op' = "special")
         => LET list == layer_store.list
                n == Len(list)
                SmallerNames(i) ==
                    {j \in 1 .. n : layer_name(list[j].value) < layer_name(list[i].value)}
            IN IF n = 0
                  THEN layer_store' = layer_store
                  ELSE \E i \in 1 .. n :
                           /\ Cardinality(SmallerNames(i)) = (n - 1) \div 2
                           /\ layer_store'.list = WithoutIndex(list, list[i].key)
                           /\ Len(layer_store'.list) = n - 1]_vars

\* special on four layers took the one with the second smallest name, which
\* is not the one with the second smallest index
C19_Witness ==
    /\ layer_store.kind = "SEQUENCE"
    /\ op = "special"
    /\ run.count = 1
    /\ Len(run.before.list) = 4
    /\ Len(layer_store.list) = 3
    /\ \E i \in 1 .. 4 :
           /\ i # 2
           /\ layer_store.list = WithoutIndex(run.before.list, run.before.list[i].key)
           /\ Cardinality({j \in 1 .. 4 : layer_name(run.before.list[j].value)
                                            < layer_name(run.before.list[i].value)}) = 1

\* C20: erase removes exactly the entry of index layer.index if one is stored,
\* keeps the order of the others and returns True; if none is stored, also on
\* an empty store, it returns False and leaves the store unchanged.
C20_SequenceErase ==
    [][(layer_store.kind = "SEQUENCE" /\ op' = "erase")
         => LET list == layer_store.list IN
            IF \E i \in 1 .. Len(list) : list[i].key = layer_index(arg')
               THEN /\ ret' = RetBool(TRUE)
                    /\ layer_store'.list = WithoutIndex(list, layer_index(arg'))
                    /\ Len(layer_store'.list) = Len(list) - 1
               ELSE /\ ret' = RetBool(FALSE)
                    /\ layer_store' = layer_store]_vars

\* erase took an entry from between two others
C20_Witness ==
    /\ layer_store.kind = "SEQUENCE"
    /\ op = "erase"
    /\ ret = RetBool(TRUE)
    /\ \E i, j \in 1 .. Len(layer_store.list) :
           /\ layer_store.list[i].key < layer_index(arg)
           /\ layer_index(arg) < layer_store.list[j].key

RECURSIVE ByIndex(_)
\* the layers of a set, in ascending order of their index
ByIndex(layers) ==
    IF layers = {} THEN <<>>
    ELSE LET first == CHOOSE l \in layers :
                          \A k \in layers : layer_index(l) <= layer_index(k)
         IN <<first>> \o ByIndex(layers \ {first})

\* C21: SequenceLayerStore.get_color returns start when the store is empty and
\* otherwise the fold of Layer.apply over the stored layers in ascending index
\* order; the result depends on the set of stored layers only, not on the
\* order in which they were added or on layers erased and added again.
C21_SequenceGetColorIsFold ==
    (layer_store.kind = "SEQUENCE" /\ op = "get_color")
        => /\ Elements(arrival) = Elements(Held(layer_store))
           /\ color = Returned(FoldApply(ByIndex(Elements(arrival)),
                                         Colour(query.start), query))

\* get_color on three layers of which the one of the highest index was added
\* first and the one of the lowest index last
C21_Witness ==
    /\ layer_store.kind = "SEQUENCE"
    /\ op = "get_color"
    /\ Len(arrival) = 3
    /\ layer_index(arrival[1]) > layer_index(arrival[2])
    /\ layer_index(arrival[2]) > layer_index(arrival[3])
    /\ color.tag = "colour"
    /\ Len(color.colour.applied) = 3

(***************************************************************************)
(* Claims about the Grid (SpecGrid)                                        *)
(***************************************************************************)
\* C22: the brush size starts at 2 and stays within 0 .. 5: increase adds
\* exactly 1 below 5 and does nothing at 5, decrease subtracts exactly 1 above
\* 0 and does nothing at 0; neither touches a square's store.
C22_BrushSizeClamped ==
    /\ (op = "init" => brush_size = 2)
    /\ [](brush_size \in 0 .. 5)
    /\ [][op' = "increase_brush_size"
            => /\ brush_size' = IF brush_size < 5 THEN brush_size + 1 ELSE brush_size
               /\ grid' = grid]_vars
    /\ [][op' = "decrease_brush_size"
            => /\ brush_size' = IF brush_size > 0 THEN brush_size - 1 ELSE brush_size
               /\ grid' = grid]_vars

\* increase_brush_size was called at size 5 over a painted grid
C22_Witness ==
    /\ op = "increase_brush_size"
    /\ brush_size = 5
    /\ grid # Grid_init(draw_style)

\* the class of store draw_style names
VariantOf(style) ==
    CASE style = DRAW_STYLE_SET -> "SET"
      [] style = DRAW_STYLE_ADD -> "ADD"
      [] style = DRAW_STYLE_SEQUENCE -> "SEQUENCE"

\* C23: every square holds a store of the one class draw_style chose at
\* construction, no operation changes a square's class, and Grid.special calls
\* special exactly once on every square's store and changes nothing else:
\* not the brush size, the dimensions or the draw style.
C23_GridVariantAndSpecial ==
    /\ [](/\ DOMAIN grid = Cells
          /\ \A c \in Cells : grid[c].kind = VariantOf(draw_style))
    /\ [][draw_style' = draw_style]_vars
    /\ [][op' = "grid_special"
            => /\ \A c \in Cells : grid'[c] = LayerStore_special(grid[c])
               /\ DOMAIN grid' = DOMAIN grid
               /\ brush_size' = brush_size
               /\ draw_style' = draw_style]_vars

\* Grid.special ran on a grid with a painted square and an empty one, and
\* changed a store
C23_Witness ==
    /\ op = "grid_special"
    /\ Held(grid[<<0, 0>>]) # <<>>
    /\ Held(grid[<<1, 0>>]) = <<>>
    /\ grid[<<0, 0>>] # LayerStore_add(LayerStore_new(draw_style), 1).store
    /\ brush_size # DEFAULT_BRUSH_SIZE

(***************************************************************************)
(* More claims about UndoTracker (SpecUndo)                                *)
(***************************************************************************)
\* C24: the undo stack and the redo stack never hold more than 10000 actions
\* together; hence the push onto the redo stack in undo and onto the undo
\* stack in redo never meets a full stack, and the undo stack is full only
\* while the redo stack is empty.
C24_StacksShareCapacity ==
    /\ Undo_list.cap = StackCap
    /\ Redo_list.cap = StackCap
    /\ Len(Undo_list.items) + Len(Redo_list.items) <= StackCap
    /\ ret # RetRaised
    /\ ~ArrayStack_is_empty(Undo_list) => ~ArrayStack_is_full(Redo_list)
    /\ ~ArrayStack_is_empty(Redo_list) => ~ArrayStack_is_full(Undo_list)

\* redo has filled the undo stack
C24_Witness ==
    /\ op = "redo"
    /\ ret.tag = "action"
    /\ ArrayStack_is_full(Undo_list)
    /\ ArrayStack_is_empty(Redo_list)

\* C25: undo on a non-empty undo stack followed at once by redo returns the
\* same action twice and leaves both stacks with the contents and order they
\* had before the undo; so does redo on a non-empty redo stack followed at
\* once by undo.
C25_UndoRedoRoundTrip ==
    (\/ op = "redo" /\ trip.op = "undo" /\ trip.ret.tag = "action"
     \/ op = "undo" /\ trip.op = "redo" /\ trip.ret.tag = "action")
        => /\ ret = trip.ret
           /\ Stacks(Undo_list, Redo_list) = trip.stacks

\* undo and then redo of an action, with another action on the redo stack
C25_Witness ==
    /\ op = "redo"
    /\ trip.op = "undo"
    /\ trip.ret.tag = "action"
    /\ ret.tag = "action"
    /\ Len(Undo_list.items) >= 1
    /\ Len(Redo_list.items) >= 1
    /\ Redo_list.items[1] # ret.act

(***************************************************************************)
(* More claims about SetLayerStore (SpecSet)                               *)
(***************************************************************************)
\* C26: add and erase never change the invert flag and special never changes
\* the stored layer; so the flag special set stays through erase and later
\* add calls until the next special.
C26_SetFrame ==
    [][layer_store.kind = "SET"
         => /\ op' \in {"add", "erase"}
                 => layer_store'.special_switch = layer_store.special_switch
            /\ op' = "special" => layer_store'.layer = layer_store.layer
            /\ op' = "get_color" => layer_store' = layer_store]_vars

\* add has stored a layer while the flag was on: the flag is still on
C26_Witness ==
    /\ layer_store.kind = "SET"
    /\ op = "add"
    /\ ret = RetBool(TRUE)
    /\ layer_store.special_switch
    /\ layer_store.layer = arg
    /\ run.count = 0

(***************************************************************************)
(* More claims about ReplayTracker (SpecReplay)                            *)
(***************************************************************************)
\* C27: with n entries in the log and no add_action in between, the calls of
\* play_next_action return False n times and True at call n + 1, and the log
\* is then empty; an entry add_action records during playback is played after
\* all entries recorded before it, in recording order.
C27_ReplayLoopTerminates ==
    /\ [](op = "play_next_action"
            => /\ (ret = RetBool(TRUE)) = (loop.calls >= loop.n + 1)
               /\ (ret = RetBool(FALSE)) = (loop.calls <= loop.n)
               /\ loop.calls <= loop.n
                    => replay_sample_list.length = loop.n - loop.calls
               /\ ret = RetBool(TRUE) => CircularQueue_is_empty(replay_sample_list))
    /\ [](CircularQueue_items(replay_sample_list) = SubSeq(log, plays + 1, Len(log)))
    /\ [][(op' = "play_next_action" /\ ret' = RetBool(FALSE))
            => /\ plays' = plays + 1
               /\ grid' = PlayedOn(log[plays + 1], grid)]_vars

\* two entries were in the log when the last one was recorded, after an
\* earlier one had been played; the third call since has returned True
C27_Witness ==
    /\ op = "play_next_action"
    /\ ret = RetBool(TRUE)
    /\ loop.n = 2
    /\ loop.calls = 3
    /\ Len(log) = 3
    /\ plays = 3
    /\ CircularQueue_is_empty(replay_sample_list)

====
